---- MODULE Spec2Model ----
(***************************************************************************)
(* A model of the parameter-optimization engine of assistStock_be:         *)
(* Optimizer (src/optimizer.py), the indicator functions of Analyzer       *)
(* (src/analyzer.py), DataLoader.get_stock_data (src/data_loader.py) and   *)
(* the two HTTP handlers of src/main.py that touch the optimizer.          *)
(*                                                                         *)
(* Numbers.  Prices are positive integers.  The code computes in IEEE      *)
(* doubles; the model computes the same expressions exactly, as reduced    *)
(* fractions [n, d], and NaN is a value of its own (NaN below).  Rounding  *)
(* error of the doubles is not modelled.                                   *)
(***************************************************************************)
EXTENDS Integers, Sequences, FiniteSets, TLC

(***************************************************************************)
(* Exact arithmetic                                                        *)
(***************************************************************************)
Abs(x) == IF x < 0 THEN -x ELSE x

Min(a, b) == IF a < b THEN a ELSE b

\* Where a value that is costly to compute is used more than once, the model
\* writes  CHOOSE out \in {e(x) : x \in {v}} : TRUE  for  LET x == v IN e(x):
\* the set has the one element e(x), with v evaluated once.
RECURSIVE GCD(_, _)
GCD(a, b) ==
    IF b = 0 THEN a ELSE CHOOSE out \in {GCD(b, r) : r \in {a % b}} : TRUE

Reduce(n, d, g) == [n |-> n \div g, d |-> d \div g]

\* The fraction n/d (d # 0) in lowest terms with a positive denominator.
Lowest(n, d) ==
    CHOOSE out \in {IF d < 0 THEN Reduce(-n, -d, g) ELSE Reduce(n, d, g) :
                      g \in {GCD(Abs(n), Abs(d))}} : TRUE

Rat(n, d) == CHOOSE out \in {Lowest(x, y) : x \in {n}, y \in {d}} : TRUE

RatInt(k) == [n |-> k, d |-> 1]

RatAdd(a, b) ==
    CHOOSE out \in {Rat(x.n * y.d + y.n * x.d, x.d * y.d) :
                      x \in {a}, y \in {b}} : TRUE

RatLt(a, b) == a.n * b.d < b.n * a.d

RatGt(a, b) == RatLt(b, a)

RatGe(a, b) == ~RatLt(a, b)

\* A float that is not a number: every comparison with it is False.
NaN == [nan |-> TRUE]

IsNaN(x) == "nan" \in DOMAIN x

\* Python's x < y and x > y on floats, one or both of which may be NaN.
FloatLt(x, y) == ~IsNaN(x) /\ ~IsNaN(y) /\ RatLt(x, y)

FloatGt(x, y) == FloatLt(y, x)

(***************************************************************************)
(* StrategyParameters ("DNA"): a JSON object / Python dict.  A complete    *)
(* one has the ten keys of the default; a dict loaded from disk may have   *)
(* any subset of them.                                                     *)
(***************************************************************************)
Keys ==
    {"strategy_RSI", "strategy_MA", "strategy_BB", "rsi_window", "rsi_buy",
     "rsi_sell", "ma_short", "ma_long", "bb_window", "bb_dev"}

DefaultDna ==
    [strategy_RSI |-> TRUE, strategy_MA |-> TRUE, strategy_BB |-> FALSE,
     rsi_window |-> 14, rsi_buy |-> 30, rsi_sell |-> 70,
     ma_short |-> 20, ma_long |-> 50, bb_window |-> 20, bb_dev |-> 2]

Has(params, k) == k \in DOMAIN params

(***************************************************************************)
(* A price series: the DataFrame the data loader returns.  pd.DataFrame()  *)
(* has no columns at all (has_close = FALSE); a fetched frame has a Close  *)
(* column, here a sequence of prices (bar i of the code is Close[i + 1]).  *)
(***************************************************************************)
EmptyFrame == [has_close |-> FALSE, Close |-> << >>]

Frame(closes) == [has_close |-> TRUE, Close |-> closes]

\* df.empty: no rows or no columns.
IsEmpty(df) == ~df.has_close \/ Len(df.Close) = 0

(***************************************************************************)
(* Indicator library (Analyzer).  Each operator gives the value of the     *)
(* indicator column at bar i (0-based, as in the code).                    *)
(***************************************************************************)
\* Close.diff() at bar j: NaN at bar 0.  Only its two clipped forms are used.
\* delta.where(delta > 0, 0) at bar j: the rise, 0 at bar 0 (NaN > 0 is False).
Gain(close, j) ==
    IF j = 0 THEN 0
    ELSE IF close[j + 1] - close[j] > 0 THEN close[j + 1] - close[j] ELSE 0

\* -delta.where(delta < 0, 0) at bar j: the fall, 0 at bar 0.
Loss(close, j) ==
    IF j = 0 THEN 0
    ELSE IF close[j + 1] - close[j] < 0 THEN close[j] - close[j + 1] ELSE 0

\* The sums over the bars lo .. hi, the range halved at each step.
RECURSIVE SumGain(_, _, _)
SumGain(close, lo, hi) ==
    IF lo > hi THEN 0
    ELSE IF lo = hi THEN Gain(close, lo)
    ELSE CHOOSE out \in {SumGain(close, lo, mid) + SumGain(close, mid + 1, hi) :
                           mid \in {(lo + hi) \div 2}} : TRUE

RECURSIVE SumLoss(_, _, _)
SumLoss(close, lo, hi) ==
    IF lo > hi THEN 0
    ELSE IF lo = hi THEN Loss(close, lo)
    ELSE CHOOSE out \in {SumLoss(close, lo, mid) + SumLoss(close, mid + 1, hi) :
                           mid \in {(lo + hi) \div 2}} : TRUE

RECURSIVE SumClose(_, _, _)
SumClose(close, lo, hi) ==
    IF lo > hi THEN 0
    ELSE IF lo = hi THEN close[lo + 1]
    ELSE CHOOSE out \in {SumClose(close, lo, mid)
                             + SumClose(close, mid + 1, hi) :
                           mid \in {(lo + hi) \div 2}} : TRUE

RECURSIVE SumSquares(_, _, _)
SumSquares(close, lo, hi) ==
    IF lo > hi THEN 0
    ELSE IF lo = hi THEN close[lo + 1] * close[lo + 1]
    ELSE CHOOSE out \in {SumSquares(close, lo, mid)
                             + SumSquares(close, mid + 1, hi) :
                           mid \in {(lo + hi) \div 2}} : TRUE

\* rolling(window).mean() has a value at bar i once the window is full.
WindowFull(window, i) == window >= 1 /\ i >= window - 1

\* calculate_rsi: 100 - 100 / (1 + gain / loss), gain and loss the rolling means.
\* loss = 0 < gain gives rs = inf and RSI = 100; gain = loss = 0 gives NaN.
\* For loss > 0 the value is 100 * gain / (gain + loss).
Rsi(g, l) == IF g + l = 0 THEN NaN ELSE Rat(100 * g, g + l)

calculate_rsi(close, window, i) ==
    IF ~WindowFull(window, i) THEN NaN
    ELSE CHOOSE out \in {Rsi(g, l) :
                           g \in {SumGain(close, i - window + 1, i)},
                           l \in {SumLoss(close, i - window + 1, i)}} : TRUE

\* calculate_sma: the rolling mean of Close.
calculate_sma(close, window, i) ==
    IF ~WindowFull(window, i) THEN NaN
    ELSE Rat(SumClose(close, i - window + 1, i), window)

\* calculate_bollinger: (upper, lower) = sma +- dev * std, std the sample
\* standard deviation (ddof = 1) of the window.  std is a square root, so the
\* bands are kept as the window's sums: s = sum x, q = sum x^2.
calculate_bollinger(close, window, dev, i) ==
    IF ~WindowFull(window, i) \/ window < 2 THEN NaN
    ELSE [s |-> SumClose(close, i - window + 1, i),
          q |-> SumSquares(close, i - window + 1, i),
          w |-> window, dev |-> dev]

\* How far price is from the band's sma, against dev * std, both squared and
\* cleared of denominators: |sma - price| > dev * std (dev >= 0).
BeyondBand(band, price) ==
    (band.s - band.w * price) * (band.s - band.w * price) * (band.w - 1) >
        band.dev * band.dev * band.w * (band.w * band.q - band.s * band.s)

\* price < BB_Lower
BelowLower(band, price) ==
    ~IsNaN(band) /\ band.s - band.w * price > 0 /\ BeyondBand(band, price)

\* price > BB_Upper
AboveUpper(band, price) ==
    ~IsNaN(band) /\ band.s - band.w * price < 0 /\ BeyondBand(band, price)

(***************************************************************************)
(* Backtest engine (Optimizer._backtest)                                   *)
(***************************************************************************)
WARMUP == 50

INITIAL_CAPITAL == 10000

INVALID_PENALTY == -100

\* What a call does: it returns a value, or an exception leaves it.
Returned(v) == [raised |-> FALSE, value |-> v]

Raised == [raised |-> TRUE]

\* A rule's contribution to the bar's score.  The scores of the code are
\* multiples of 0.5; the model counts in halves (points = 2 * score).
Points(k) == [raised |-> FALSE, points |-> k]

\* The try block: the indicator columns are computed from df['Close'] and
\* params['rsi_window'], ['ma_short'], ['ma_long']; params['strategy_BB'] is
\* read and, when set, ['bb_window'] and ['bb_dev'].  Any exception (a missing
\* column or key, a window pandas rejects) is caught and ends the backtest.
IndicatorsFail(df, params) ==
    \/ ~df.has_close
    \/ ~Has(params, "rsi_window") \/ ~Has(params, "ma_short")
    \/ ~Has(params, "ma_long") \/ ~Has(params, "strategy_BB")
    \/ params.rsi_window < 0 \/ params.ma_short < 0 \/ params.ma_long < 0
    \/ /\ params.strategy_BB
       /\ (~Has(params, "bb_window") \/ ~Has(params, "bb_dev")
           \/ params.bb_window < 0)

\* Lines 156-158: the RSI rule on the bar's RSI.
RsiSignal(params, rsi) ==
    IF ~Has(params, "rsi_buy") THEN Raised
    ELSE IF FloatLt(rsi, RatInt(params.rsi_buy)) THEN Points(2)
    ELSE IF ~Has(params, "rsi_sell") THEN Raised
    ELSE IF FloatGt(rsi, RatInt(params.rsi_sell)) THEN Points(-2)
    ELSE Points(0)

RsiRule(close, params, i) ==
    IF ~Has(params, "strategy_RSI") THEN Raised
    ELSE IF ~params.strategy_RSI THEN Points(0)
    ELSE CHOOSE out \in {RsiSignal(params, rsi) :
                           rsi \in {calculate_rsi(close, params.rsi_window, i)}}
             : TRUE

\* Lines 161-163: golden cross and dead cross between bar i - 1 and bar i.
CrossSignal(prev_short, prev_long, row_short, row_long) ==
    IF FloatLt(prev_short, prev_long) /\ FloatGt(row_short, row_long)
        THEN Points(4)
    ELSE IF FloatGt(prev_short, prev_long) /\ FloatLt(row_short, row_long)
        THEN Points(-4)
    ELSE Points(0)

MaRule(close, params, i) ==
    IF ~Has(params, "strategy_MA") THEN Raised
    ELSE IF ~params.strategy_MA THEN Points(0)
    ELSE CHOOSE out \in
             {CrossSignal(prev_short, prev_long, row_short, row_long) :
                  prev_short \in {calculate_sma(close, params.ma_short, i - 1)},
                  prev_long \in {calculate_sma(close, params.ma_long, i - 1)},
                  row_short \in {calculate_sma(close, params.ma_short, i)},
                  row_long \in {calculate_sma(close, params.ma_long, i)}}
             : TRUE

\* Lines 166-168: Close outside the Bollinger band of bar i.
BandSignal(band, price) ==
    IF BelowLower(band, price) THEN Points(3)
    ELSE IF AboveUpper(band, price) THEN Points(-3)
    ELSE Points(0)

BbRule(close, params, i) ==
    IF ~params.strategy_BB THEN Points(0)
    ELSE CHOOSE out \in
             {BandSignal(band, close[i + 1]) :
                  band \in {calculate_bollinger(close, params.bb_window,
                                                params.bb_dev, i)}}
             : TRUE

\* Lines 153-168: the score of bar i, in halves; raised when a rule raises.
TotalScore(rsi, ma, bb) ==
    IF rsi.raised \/ ma.raised \/ bb.raised THEN Raised
    ELSE Points(rsi.points + ma.points + bb.points)

BarScore(close, params, i) ==
    CHOOSE out \in {TotalScore(rsi, ma, bb) :
                      rsi \in {RsiRule(close, params, i)},
                      ma \in {MaRule(close, params, i)},
                      bb \in {BbRule(close, params, i)}} : TRUE

\* A trade rule with the thresholds at a score of 1 and -1.
ExecuteOnAnySignal(price, points, capital, position) ==
    IF points >= 2 /\ position.n = 0
        THEN [capital |-> RatInt(0),
              position |-> Rat(capital.n, capital.d * price)]
    ELSE IF points <= -2 /\ position.n > 0
        THEN [capital |-> Rat(position.n * price, position.d),
              position |-> RatInt(0)]
    ELSE [capital |-> capital, position |-> position]

\* Lines 170-177: the trade at price `price`, from (capital, position) to the
\* new pair.
Execute(price, points, capital, position) ==
    IF points >= 3 /\ position.n = 0
        THEN [capital |-> RatInt(0),
              position |-> Rat(capital.n, capital.d * price)]
    ELSE IF points <= -3 /\ position.n > 0
        THEN [capital |-> Rat(position.n * price, position.d),
              position |-> RatInt(0)]
    ELSE [capital |-> capital, position |-> position]

\* Lines 149-177: the bars i, i + 1, ... of the loop.
RECURSIVE BacktestLoop(_, _, _, _, _)
RECURSIVE BacktestBar(_, _, _, _, _, _)
BacktestLoop(close, params, i, capital, position) ==
    IF i >= Len(close)
        THEN [raised |-> FALSE, capital |-> capital, position |-> position]
    ELSE CHOOSE out \in
             {BacktestBar(close, params, i, capital, position, score) :
                  score \in {BarScore(close, params, i)}}
             : TRUE

\* Bar i, its score known: the trade, and on to the next bar.
BacktestBar(close, params, i, capital, position, score) ==
    IF score.raised THEN Raised
    ELSE CHOOSE out \in
             {BacktestLoop(close, params, i + 1, after.capital, after.position) :
                  after \in {Execute(close[i + 1], score.points,
                                     capital, position)}}
             : TRUE

\* Lines 179-181: the return on the initial capital, in percent.
RoiOf(final_value) ==
    Rat(final_value.n - INITIAL_CAPITAL * final_value.d, final_value.d * 100)

Roi(close, capital, position) ==
    IF position.n > 0
        THEN CHOOSE out \in
                 {RoiOf(final_value) :
                      final_value \in
                          {RatAdd(capital, Rat(position.n * close[Len(close)],
                                               position.d))}}
                 : TRUE
    ELSE RoiOf(capital)

\* The end of _backtest: the loop raised, or the return is computed.
BacktestResult(close, end) ==
    IF end.raised THEN Raised
    ELSE Returned(Roi(close, end.capital, end.position))

\* _backtest(df, params): the fitness, the penalty when the indicators cannot
\* be computed, or the exception a missing key raises inside the loop.
backtest(df, params) ==
    IF IndicatorsFail(df, params) THEN Returned(RatInt(INVALID_PENALTY))
    ELSE CHOOSE out \in
             {BacktestResult(df.Close, end) :
                  end \in {BacktestLoop(df.Close, params, WARMUP,
                                        RatInt(INITIAL_CAPITAL), RatInt(0))}}
             : TRUE

(***************************************************************************)
(* The live recommendation path (Analyzer.analyze_stock), called by        *)
(* main.py and scheduler.py with params = optimizer.best_params.           *)
(***************************************************************************)
ANALYZE_MIN_BARS == 50

\* params.get(k, default)
Get(params, k, default) == IF Has(params, k) THEN params[k] ELSE default

\* Lines 68-74: the RSI rule on the last bar, in halves.
AnalyzeRsi(params, rsi) ==
    IF ~Get(params, "strategy_RSI", TRUE) THEN 0
    ELSE IF FloatLt(rsi, RatInt(Get(params, "rsi_buy", 30))) THEN 2
    ELSE IF FloatGt(rsi, RatInt(Get(params, "rsi_sell", 70))) THEN -2
    ELSE 0

\* Lines 77-92: the crossover between the last two bars, and the trend check.
AnalyzeMa(params, prev_short, prev_long, curr_short, curr_long) ==
    IF ~Get(params, "strategy_MA", TRUE) THEN 0
    ELSE (IF FloatLt(prev_short, prev_long) /\ FloatGt(curr_short, curr_long)
              THEN 4
          ELSE IF FloatGt(prev_short, prev_long)
                  /\ FloatLt(curr_short, curr_long)
              THEN -4
          ELSE 0)
         + (IF FloatGt(curr_short, curr_long) THEN 1 ELSE 0)

\* Lines 95-97: check_volume_surge(df) compares the last volume with the mean
\* of the 20 before it; the Volume column is not modelled, its outcome is
\* `surge`.
AnalyzeVolume(surge) == IF surge THEN 3 ELSE 0

\* Lines 99-103
Decision(points) ==
    IF points >= 3 THEN "Buy" ELSE IF points <= -3 THEN "Sell" ELSE "Neutral"

\* Lines 105-111: the report (the list of signal texts left out); "rsi" is the
\* last RSI, or 0 when pd.isna finds it undefined.
AnalyzeReport(close, rsi, points) ==
    [signal |-> Decision(points), score |-> points,
     current_price |-> close[Len(close)],
     rsi |-> IF IsNaN(rsi) THEN RatInt(0) ELSE rsi]

\* analyze_stock(df, params) with the outcome `surge` of the volume check.
\* rolling() raises on a negative window, and no handler is around it.
analyze_stock(df, params, surge) ==
    IF IsEmpty(df) \/ Len(df.Close) < ANALYZE_MIN_BARS
        THEN Returned([signal |-> "Neutral", reason |-> "Insufficient data"])
    ELSE IF \/ Get(params, "rsi_window", 14) < 0
            \/ Get(params, "ma_short", 20) < 0
            \/ Get(params, "ma_long", 50) < 0
        THEN Raised
    ELSE LET close == df.Close
             last == Len(close) - 1
             rsi == calculate_rsi(close, Get(params, "rsi_window", 14), last)
             short == Get(params, "ma_short", 20)
             long == Get(params, "ma_long", 50)
         IN  Returned(AnalyzeReport(close, rsi,
                 AnalyzeRsi(params, rsi)
                 + AnalyzeMa(params, calculate_sma(close, short, last - 1),
                             calculate_sma(close, long, last - 1),
                             calculate_sma(close, short, last),
                             calculate_sma(close, long, last))
                 + AnalyzeVolume(surge)))

(***************************************************************************)
(* Genetic operators (Optimizer._mutate, Optimizer._crossover)             *)
(***************************************************************************)
\* The keys _mutate resamples with random.randint(lo, hi), and their ranges.
MutationRange ==
    [rsi_window |-> <<5, 30>>, rsi_buy |-> <<10, 40>>, rsi_sell |-> <<60, 90>>,
     ma_short |-> <<5, 50>>, ma_long |-> <<50, 200>>]

\* The outcome of the random draws of one _mutate call: the keys whose
\* random.random() < 0.3 came true, with the value randint gave each, and
\* whether the draw for strategy_BB came true.
NoDraw == [resample |-> << >>, toggle_bb |-> FALSE]

DrawSize(draw) ==
    Cardinality(DOMAIN draw.resample) + (IF draw.toggle_bb THEN 1 ELSE 0)

\* A _mutate whose last line sets strategy_BB instead of negating it.
mutate_setting_bb(params, draw) ==
    LET p == [k \in (DOMAIN params) \cup (DOMAIN draw.resample) |->
                 IF k \in DOMAIN draw.resample THEN draw.resample[k]
                 ELSE params[k]]
    IN  IF ~draw.toggle_bb THEN Returned(p)
        ELSE IF ~Has(p, "strategy_BB") THEN Raised
        ELSE Returned([p EXCEPT !["strategy_BB"] = TRUE])

\* _mutate(params) under the draws `draw`: a copy of params with the drawn
\* keys set.  p['strategy_BB'] = not p['strategy_BB'] reads the key first and
\* raises KeyError when the dict has none.
mutate(params, draw) ==
    LET p == [k \in (DOMAIN params) \cup (DOMAIN draw.resample) |->
                 IF k \in DOMAIN draw.resample THEN draw.resample[k]
                 ELSE params[k]]
    IN  IF ~draw.toggle_bb THEN Returned(p)
        ELSE IF ~Has(p, "strategy_BB") THEN Raised
        ELSE Returned([p EXCEPT !["strategy_BB"] = ~p["strategy_BB"]])

\* A _crossover that takes the mean of the parents' numbers where the coin
\* falls on p2.
crossover_blending(p1, p2, from_p1) ==
    IF \E k \in DOMAIN p1 : k \notin from_p1 /\ ~Has(p2, k) THEN Raised
    ELSE Returned([k \in DOMAIN p1 |->
                      IF k \in from_p1 THEN p1[k]
                      ELSE IF k \in DOMAIN MutationRange
                          THEN (p1[k] + p2[k]) \div 2
                      ELSE p2[k]])

\* _crossover(p1, p2) under the coin flips `from_p1`, the keys whose
\* random.random() > 0.5 came true: the child has p1's keys, each value from
\* p1 or from p2.  p2[k] raises KeyError when p2 has no key k.
crossover(p1, p2, from_p1) ==
    IF \E k \in DOMAIN p1 : k \notin from_p1 /\ ~Has(p2, k) THEN Raised
    ELSE Returned([k \in DOMAIN p1 |->
                      IF k \in from_p1 THEN p1[k] ELSE p2[k]])

\* The keys of p1 on which a coin flip matters: where p2 has another value or
\* none.  On every other key both outcomes of the flip give the same child.
Differ(p1, p2) == {k \in DOMAIN p1 : ~Has(p2, k) \/ p1[k] # p2[k]}

(***************************************************************************)
(* Ranking: scores.sort(key = lambda x: x[0], reverse = True).  Python's   *)
(* sort is stable, also in reverse: equal scores keep their order.         *)
(***************************************************************************)
\* x inserted into a list sorted by descending score, after its equals.
RECURSIVE InsertDesc(_, _)
InsertDesc(sorted, x) ==
    IF sorted = << >> THEN <<x>>
    ELSE IF RatGt(x.score, Head(sorted).score) THEN <<x>> \o sorted
    ELSE <<Head(sorted)>> \o InsertDesc(Tail(sorted), x)

RECURSIVE SortDesc(_)
SortDesc(scores) ==
    IF scores = << >> THEN << >>
    ELSE CHOOSE out \in
             {InsertDesc(sorted, scores[Len(scores)]) :
                  sorted \in {SortDesc(SubSeq(scores, 1, Len(scores) - 1))}}
             : TRUE

\* Python's list slice xs[:n].
Take(xs, n) == SubSeq(xs, 1, Min(n, Len(xs)))

(***************************************************************************)
(* Bounds of the model and inputs                                          *)
(***************************************************************************)
\* POPULATION_SIZE of run_simulation.  The code has 10; the model runs the
\* same generation loop on a smaller population.
PopulationSize == 3

\* The callers pass generations = 5 (the loop) and 10 (the endpoint); the
\* model runs every count from 1 to MaxGenerations.
MaxGenerations == 2

\* How many of the random.random() < 0.3 draws of _mutate come true in the
\* life of the process, when the background loop runs alone ...
MaxMutations == 3

\* ... when a second run_simulation call runs beside it ...
MaxConcurrentMutations == 1

\* The generation counts of two calls that run side by side: 1 to this.
MaxConcurrentGenerations == 1

\* ... and in the runs whose only question is whether the loop goes on.
MaxLoopMutations == 0

\* Frames of 0 .. ShortBars bars are among those backtest is called with.
ShortBars == 2

ELITE == 2

TOURNAMENT == 5

INITIAL_BEST_SCORE == -1000

\* n prices after `from`, each `step` above the one before.
RECURSIVE Ramp(_, _, _)
Ramp(from, n, step) ==
    IF n = 0 THEN << >>
    ELSE <<from + step>> \o Ramp(from + step, n - 1, step)

\* A price series of 56 bars: a fall, a recovery, a dip and a rally, so that
\* the moving averages cross after the warm-up and configurations differ in
\* fitness.
TrendSeries ==
    <<98>> \o Ramp(98, 29, -2) \o Ramp(40, 15, 2) \o Ramp(70, 3, -4)
           \o Ramp(58, 8, 3)

\* The bars of each half of the rise-and-fall series.
HalfBars == 150

\* A series that rises by one a bar for HalfBars bars and falls by one a bar
\* for as many.
RiseFallSeries == Ramp(100, HalfBars, 1) \o Ramp(100 + HalfBars, HalfBars, -1)

\* What the market-data provider can deliver for the ticker.
PriceSeriesSet == {TrendSeries}

\* The draws _mutate is let to make in the optimizer's runs: none comes true;
\* ma_short is resampled, to the low end or to the high end of its range;
\* strategy_BB is toggled.
SampledDraws ==
    {NoDraw,
     [resample |-> [k \in {"ma_short"} |-> MutationRange.ma_short[1]],
      toggle_bb |-> FALSE],
     [resample |-> [k \in {"ma_short"} |-> MutationRange.ma_short[2]],
      toggle_bb |-> FALSE],
     [resample |-> << >>, toggle_bb |-> TRUE]}

\* The sampled draws that come true at most `left` times.
Draws(left) == {d \in SampledDraws : DrawSize(d) <= left}

(***************************************************************************)
(* Durable state: the files                                                *)
(***************************************************************************)
Absent == [kind |-> "absent"]

\* A file that exists and that json.load cannot parse.
Corrupt == [kind |-> "corrupt"]

Json(v) == [kind |-> "json", value |-> v]

\* What best_dna.json can hold when the process starts: nothing, garbage, a
\* configuration an earlier process saved, or a JSON object that is no
\* complete configuration.
DnaFileContents ==
    {Absent, Corrupt, Json(DefaultDna), Json(<< >>)}

\* The cache entry of the data loader for (ticker, "2y", "1d"): none that is
\* younger than 15 minutes, a fresh pickled frame, or a fresh file that
\* pd.read_pickle cannot read.
CacheMiss == [state |-> "miss"]

CacheFresh(df) == [state |-> "fresh", df |-> df]

CacheUnreadable == [state |-> "unreadable"]

(***************************************************************************)
(* State                                                                   *)
(***************************************************************************)
VARIABLES
    dna_file,       \* backend/best_dna.json
    history_file,   \* backend/optimization_history.json
    cache_file,     \* the data loader's cache entry of the ticker
    best_params,    \* Optimizer.best_params
    best_score,     \* Optimizer.best_score
    run,            \* per worker thread: its run_simulation call
    loop_pc,        \* where run_optimization_loop is
    status,         \* GET /optimization/status: the request being served
    draws_left,     \* draws of _mutate that may still come true
    call            \* a function called on its own: arguments and outcome

vars ==
    <<dna_file, history_file, cache_file, best_params, best_score, run,
      loop_pc, status, draws_left, call>>

\* The threads that call run_simulation: the worker asyncio.to_thread gives
\* the background loop, and the thread of the /optimization/run task.
Workers == {"loop", "task"}

NoResult == [kind |-> "none"]

NoCall == [fn |-> "none"]

\* A worker with no call in progress.
IdleRun ==
    [pc |-> "idle", generations |-> 0, df |-> EmptyFrame, population |-> << >>,
     gen |-> 0, scores |-> << >>, history |-> << >>, new_population |-> << >>,
     result |-> NoResult]

\* run_simulation(ticker, generations) called: nothing done yet.
StartRun(generations) ==
    [IdleRun EXCEPT !.pc = "fetch", !.generations = generations]

\* The call is over: its locals are gone, its outcome is left.
EndRun(result) == [IdleRun EXCEPT !.pc = "done", !.result = result]

\* An exception leaves run_simulation, raised by the statement at `pc`.
RunRaised(pc) == EndRun([kind |-> "raised", at |-> pc])

\* Optimizer._load_dna: the parsed content of the file, whatever it is; the
\* default when there is no file or it does not parse.
load_dna(file) == IF file.kind = "json" THEN file.value ELSE DefaultDna

\* The process starts (Optimizer.__init__, the startup event of main.py) on
\* the files an earlier process or the disk left: the state is loaded, the
\* background loop started and in its first cycle.
Start(budget, generations) ==
    /\ dna_file \in DnaFileContents
    /\ history_file = Absent
    /\ cache_file \in {CacheMiss, CacheUnreadable}
    /\ best_params = load_dna(dna_file)
    /\ best_score = RatInt(INITIAL_BEST_SCORE)
    /\ \E n \in 1 .. generations :
           run = [w \in Workers |-> IF w = "loop" THEN StartRun(n) ELSE IdleRun]
    /\ loop_pc = "running"
    /\ status = [pc |-> "idle"]
    /\ draws_left = budget
    /\ call = NoCall

Init == Start(MaxMutations, MaxGenerations)

(***************************************************************************)
(* DataLoader.get_stock_data                                               *)
(***************************************************************************)
\* Every outcome of get_stock_data on the cache entry `cache`: what the call
\* does and the cache entry it leaves.  A fresh entry is unpickled outside
\* the try block.  Otherwise the provider is asked, inside the try block: it
\* fails or has no rows (an empty frame is returned), or it has rows and the
\* frame is pickled and returned; when pickling fails, no file or a partial
\* file is left and the except branch returns an empty frame.
get_stock_data(cache) ==
    IF cache.state = "fresh"
        THEN {[result |-> Returned(cache.df), cache |-> cache]}
    ELSE IF cache.state = "unreadable"
        THEN {[result |-> Raised, cache |-> cache]}
    ELSE {[result |-> Returned(EmptyFrame), cache |-> cache]}
         \cup {[result |-> Returned(Frame(s)), cache |-> CacheFresh(Frame(s))]
               : s \in PriceSeriesSet}
         \cup {[result |-> Returned(EmptyFrame), cache |-> c]
               : c \in {CacheMiss, CacheUnreadable}}

\* A run_simulation without the df.empty check: it goes on with whatever
\* frame it got.
GetStockDataUnchecked(w) ==
    /\ run[w].pc = "fetch"
    /\ \E out \in get_stock_data(cache_file) :
           /\ cache_file' = out.cache
           /\ run' = [run EXCEPT ![w] =
                  IF out.result.raised THEN RunRaised("fetch")
                  ELSE [@ EXCEPT !.pc = "seed", !.df = out.result.value]]
    /\ UNCHANGED <<dna_file, history_file, best_params, best_score, loop_pc,
                   status, draws_left, call>>

\* Lines 67-71: the price series is loaded; with none, the run ends.
GetStockData(w) ==
    /\ run[w].pc = "fetch"
    /\ \E out \in get_stock_data(cache_file) :
           /\ cache_file' = out.cache
           /\ run' = [run EXCEPT ![w] =
                  IF out.result.raised THEN RunRaised("fetch")
                  ELSE IF IsEmpty(out.result.value)
                      THEN EndRun([kind |-> "returned_none"])
                  ELSE [@ EXCEPT !.pc = "seed", !.df = out.result.value]]
    /\ UNCHANGED <<dna_file, history_file, best_params, best_score, loop_pc,
                   status, draws_left, call>>

\* The cache entry turns 15 minutes old.  Only get_stock_data looks at its
\* age, so it is enough to let it age between two cycles of the loop.
CacheExpires ==
    /\ loop_pc # "running"
    /\ cache_file.state # "miss"
    /\ cache_file' = CacheMiss
    /\ UNCHANGED <<dna_file, history_file, best_params, best_score, run,
                   loop_pc, status, draws_left, call>>

(***************************************************************************)
(* Optimizer.run_simulation, one worker's call.  The call is cut where it  *)
(* reads or writes what the workers share (best_params, best_score, the    *)
(* files) and at each random individual; what lies between is local.       *)
(***************************************************************************)
\* Line 78: the head of the generation loop.
LoopHead(r) ==
    IF r.gen < r.generations THEN [r EXCEPT !.pc = "evaluate"]
    ELSE [r EXCEPT !.pc = "save_history"]

\* Line 115: the new population replaces the old one.
NextGeneration(r) ==
    LoopHead([r EXCEPT !.population = r.new_population,
                       !.new_population = << >>, !.scores = << >>,
                       !.gen = r.gen + 1])

\* A selection that carries only the top individual over.
AfterBestTrackingOneElite(r) ==
    LET top == Take(r.scores, 1)
        elite == [i \in 1 .. Len(top) |-> top[i].individual]
        r1 == [r EXCEPT !.history =
                   Append(@, [generation |-> r.gen,
                              best_score |-> r.scores[1].score,
                              best_params |-> r.scores[1].individual]),
                        !.new_population = elite]
    IN  IF Len(elite) < PopulationSize THEN [r1 EXCEPT !.pc = "breed"]
        ELSE NextGeneration(r1)

\* A selection without elitism: the new population is all offspring.
AfterBestTrackingNoElite(r) ==
    [r EXCEPT !.history =
                  Append(@, [generation |-> r.gen,
                             best_score |-> r.scores[1].score,
                             best_params |-> r.scores[1].individual]),
              !.new_population = << >>,
              !.pc = "breed"]

\* Lines 98-107: the generation's record is appended to the history and the
\* top ELITE individuals open the new population.
AfterBestTracking(r) ==
    LET top == Take(r.scores, ELITE)
        elite == [i \in 1 .. Len(top) |-> top[i].individual]
        r1 == [r EXCEPT !.history =
                   Append(@, [generation |-> r.gen,
                              best_score |-> r.scores[1].score,
                              best_params |-> r.scores[1].individual]),
                        !.new_population = elite]
    IN  IF Len(elite) < PopulationSize THEN [r1 EXCEPT !.pc = "breed"]
        ELSE NextGeneration(r1)

\* Line 74, one element of the list: a mutated copy of self.best_params.
SeedOne(w) ==
    /\ run[w].pc = "seed"
    /\ \E draw \in Draws(draws_left) :
           LET m == mutate(best_params, draw)
               r == [run[w] EXCEPT !.population = Append(@, m.value)]
           IN  /\ run' = [run EXCEPT ![w] =
                      IF m.raised THEN RunRaised("seed")
                      ELSE IF Len(r.population) < PopulationSize THEN r
                      ELSE LoopHead(r)]
               /\ draws_left' = draws_left - DrawSize(draw)
    /\ UNCHANGED <<dna_file, history_file, cache_file, best_params,
                   best_score, loop_pc, status, call>>

\* A tracker that takes every generation's top for the best.
ImprovesAlways(gen_best_score, score) == TRUE

\* Line 92: is the generation's top fitness a new best?
Improves(gen_best_score, score) == RatGt(gen_best_score, score)

\* Lines 79-83: the generation's scores, one backtest per individual.
Scored(fitness, individual) ==
    [raised |-> fitness.raised,
     score |-> IF fitness.raised THEN NaN ELSE fitness.value,
     individual |-> individual]

RECURSIVE EvaluatePopulation(_, _)
EvaluatePopulation(df, population) ==
    IF population = << >> THEN << >>
    ELSE <<CHOOSE out \in {Scored(fitness, Head(population)) :
                             fitness \in {backtest(df, Head(population))}}
               : TRUE>>
         \o EvaluatePopulation(df, Tail(population))

\* Line 86: the ranking, without the marks of raised.
Ranked(evaluated) ==
    SortDesc([i \in 1 .. Len(evaluated) |->
                 [score |-> evaluated[i].score,
                  individual |-> evaluated[i].individual]])

\* Lines 88-96: the generation's top against self.best_score.
BestTracking(r, score) ==
    IF Improves(r.scores[1].score, score) THEN [r EXCEPT !.pc = "set_score"]
    ELSE AfterBestTracking(r)

\* The run after the backtests of a generation.
Evaluated(r, evaluated, score) ==
    IF \E i \in 1 .. Len(evaluated) : evaluated[i].raised
        THEN RunRaised("evaluate")
    ELSE CHOOSE out \in {BestTracking([r EXCEPT !.scores = scores], score) :
                           scores \in {Ranked(evaluated)}} : TRUE

\* Lines 79-92: every individual is backtested, the scores are ranked and the
\* top one is compared with self.best_score.
Evaluate(w) ==
    /\ run[w].pc = "evaluate"
    /\ run' = [run EXCEPT ![w] =
           CHOOSE out \in
               {Evaluated(run[w], evaluated, best_score) :
                    evaluated \in {EvaluatePopulation(run[w].df,
                                                      run[w].population)}}
               : TRUE]
    /\ UNCHANGED <<dna_file, history_file, cache_file, best_params,
                   best_score, loop_pc, status, draws_left, call>>

\* Line 93: self.best_score = gen_best_score
SetBestScore(w) ==
    /\ run[w].pc = "set_score"
    /\ best_score' = run[w].scores[1].score
    /\ run' = [run EXCEPT ![w].pc = "set_params"]
    /\ UNCHANGED <<dna_file, history_file, cache_file, best_params, loop_pc,
                   status, draws_left, call>>

\* Line 94: self.best_params = gen_best_params
SetBestParams(w) ==
    /\ run[w].pc = "set_params"
    /\ best_params' = run[w].scores[1].individual
    /\ run' = [run EXCEPT ![w].pc = "save_dna"]
    /\ UNCHANGED <<dna_file, history_file, cache_file, best_score, loop_pc,
                   status, draws_left, call>>

\* What open(file, 'w') and json.dump(value) leave of `file`: the value; the
\* old content when the file cannot be opened; a truncated file when the
\* dump breaks off.  Both failures raise.
WriteJson(file, value) ==
    {[raised |-> FALSE, file |-> Json(value)],
     [raised |-> TRUE, file |-> file],
     [raised |-> TRUE, file |-> Corrupt]}

\* Optimizer._save_dna(params): the parameters, and nothing else, are written.
save_dna(file, params) == WriteJson(file, params)

\* A writer that keeps the records the file already holds and adds the run's.
save_history_appending(file, params, score, history) ==
    WriteJson(file, [best_params |-> params, best_score |-> score,
                     history |-> (IF file.kind = "json"
                                      THEN file.value.history ELSE << >>)
                                 \o history])

\* Optimizer._save_history(history)
save_history(file, params, score, history) ==
    WriteJson(file, [best_params |-> params, best_score |-> score,
                     history |-> history])

\* Line 95: self._save_dna(self.best_params); no handler around it.
SaveDna(w) ==
    /\ run[w].pc = "save_dna"
    /\ \E out \in save_dna(dna_file, best_params) :
           /\ dna_file' = out.file
           /\ run' = [run EXCEPT ![w] =
                  IF out.raised THEN RunRaised("save_dna")
                  ELSE AfterBestTracking(@)]
    /\ UNCHANGED <<history_file, cache_file, best_params, best_score,
                   loop_pc, status, draws_left, call>>

\* Lines 109-110: the individuals random.choice can pick from the top.
Parents(scores) ==
    {Take(scores, TOURNAMENT)[i].individual :
         i \in 1 .. Len(Take(scores, TOURNAMENT))}

\* Lines 107-113, one pass of the while loop: two parents from the top
\* TOURNAMENT, their child, mutated, joins the new population.
BreedOne(w) ==
    /\ run[w].pc = "breed"
    /\ \E p1 \in Parents(run[w].scores), p2 \in Parents(run[w].scores) :
       \E from_p1 \in SUBSET Differ(p1, p2), draw \in Draws(draws_left) :
           LET child == crossover(p1, p2, from_p1)
               m == IF child.raised THEN Raised
                    ELSE mutate(child.value, draw)
               r == [run[w] EXCEPT !.new_population = Append(@, m.value)]
           IN  /\ run' = [run EXCEPT ![w] =
                      IF m.raised THEN RunRaised("breed")
                      ELSE IF Len(r.new_population) < PopulationSize THEN r
                      ELSE NextGeneration(r)]
               /\ draws_left' = draws_left - DrawSize(draw)
    /\ UNCHANGED <<dna_file, history_file, cache_file, best_params,
                   best_score, loop_pc, status, call>>

\* Lines 117-119: the history is saved (no handler around it) and
\* self.best_params is returned.
SaveHistory(w) ==
    /\ run[w].pc = "save_history"
    /\ \E out \in save_history(history_file, best_params, best_score,
                               run[w].history) :
           /\ history_file' = out.file
           /\ run' = [run EXCEPT ![w] =
                  IF out.raised THEN RunRaised("save_history")
                  ELSE EndRun([kind |-> "returned", value |-> best_params])]
    /\ UNCHANGED <<dna_file, cache_file, best_params, best_score, loop_pc,
                   status, draws_left, call>>

\* One step of worker w's run_simulation call.
RunStep(w) ==
    \/ GetStockData(w)
    \/ SeedOne(w)
    \/ Evaluate(w)
    \/ SetBestScore(w)
    \/ SetBestParams(w)
    \/ SaveDna(w)
    \/ BreedOne(w)
    \/ SaveHistory(w)

(***************************************************************************)
(* Optimizer.run_optimization_loop: while True, a cycle in a worker thread *)
(* (asyncio.to_thread), then a sleep.                                      *)
(***************************************************************************)
\* Lines 26-28: the cycle's call returned; the loop sleeps one hour.
LoopCycleFinished ==
    /\ loop_pc = "running"
    /\ run["loop"].pc = "done"
    /\ run["loop"].result.kind # "raised"
    /\ loop_pc' = "sleep_3600"
    /\ run' = [run EXCEPT !["loop"] = IdleRun]
    /\ UNCHANGED <<dna_file, history_file, cache_file, best_params,
                   best_score, status, draws_left, call>>

\* A loop that ends with the cycle's exception.
LoopStops == "stopped"

\* What `except Exception` does with the cycle's exception (lines 29-31): it
\* is printed and the loop sleeps one minute.
LoopAfterError == "sleep_60"

LoopCycleFailed ==
    /\ loop_pc = "running"
    /\ run["loop"].pc = "done"
    /\ run["loop"].result.kind = "raised"
    /\ loop_pc' = LoopAfterError
    /\ run' = [run EXCEPT !["loop"] = IdleRun]
    /\ UNCHANGED <<dna_file, history_file, cache_file, best_params,
                   best_score, status, draws_left, call>>

\* The sleep is over: back to line 23, the next cycle is handed to a thread.
LoopWake ==
    /\ loop_pc \in {"sleep_3600", "sleep_60"}
    /\ loop_pc' = "running"
    /\ \E n \in 1 .. MaxGenerations :
           run' = [run EXCEPT !["loop"] = StartRun(n)]
    /\ UNCHANGED <<dna_file, history_file, cache_file, best_params,
                   best_score, status, draws_left, call>>

(***************************************************************************)
(* main.py: the handlers that touch the optimizer                          *)
(***************************************************************************)
\* POST /optimization/run: run_simulation is added as a background task and
\* runs in a thread of the server's pool.
RunOptimization ==
    /\ run["task"].pc = "idle"
    /\ \E n \in 1 .. MaxConcurrentGenerations :
           run' = [run EXCEPT !["task"] = StartRun(n)]
    /\ UNCHANGED <<dna_file, history_file, cache_file, best_params,
                   best_score, loop_pc, status, draws_left, call>>

\* GET /optimization/status, line 169: optimizer.best_params is read.
StatusReadParams ==
    /\ status.pc = "idle"
    /\ status' = [pc |-> "read_params", best_params |-> best_params]
    /\ UNCHANGED <<dna_file, history_file, cache_file, best_params,
                   best_score, run, loop_pc, draws_left, call>>

\* line 170: optimizer.best_score is read; the response is complete.
StatusReadScore ==
    /\ status.pc = "read_params"
    /\ status' = [pc |-> "respond", best_params |-> status.best_params,
                  best_score |-> best_score]
    /\ UNCHANGED <<dna_file, history_file, cache_file, best_params,
                   best_score, run, loop_pc, draws_left, call>>

\* The response is sent.
StatusRespond ==
    /\ status.pc = "respond"
    /\ status' = [pc |-> "idle"]
    /\ UNCHANGED <<dna_file, history_file, cache_file, best_params,
                   best_score, run, loop_pc, draws_left, call>>

(***************************************************************************)
(* Specifications                                                          *)
(***************************************************************************)
\* The service on its own: the background loop, cycle after cycle.
Next ==
    \/ RunStep("loop")
    \/ LoopCycleFinished
    \/ LoopCycleFailed
    \/ LoopWake
    \/ CacheExpires

Spec == Init /\ [][Next]_vars

\* The scheduler runs the loop and its worker thread whenever they can run.
LoopStep ==
    RunStep("loop") \/ LoopCycleFinished \/ LoopCycleFailed \/ LoopWake

FairInit == Start(MaxLoopMutations, MaxGenerations)

FairSpec == FairInit /\ [][Next]_vars /\ WF_vars(LoopStep)

\* The first cycle of the loop with a POST /optimization/run and status
\* requests beside it: two run_simulation calls on the one Optimizer.
ConcurrentInit == Start(MaxConcurrentMutations, MaxConcurrentGenerations)

ConcurrentNext ==
    \/ \E w \in Workers : RunStep(w)
    \/ RunOptimization
    \/ StatusReadParams
    \/ StatusReadScore
    \/ StatusRespond

ConcurrentSpec == ConcurrentInit /\ [][ConcurrentNext]_vars

\* Optimizer._backtest called on its own, on frames of every kind: without
\* columns, with a Close column of 0 .. ShortBars bars, with one bar less than
\* the warm-up, exactly the warm-up, and more.
BacktestFrames ==
    {EmptyFrame}
    \cup {Frame(SubSeq(s, 1, n)) :
            s \in PriceSeriesSet,
            n \in (0 .. ShortBars) \cup {WARMUP - 1, WARMUP, WARMUP + 1}}
    \cup {Frame(s) : s \in PriceSeriesSet}

\* Complete configurations, each numeric key at its default or at the low end
\* of its mutation range, and two dicts that lack keys.
BacktestParams ==
    [strategy_RSI : {DefaultDna.strategy_RSI},
     strategy_MA : {DefaultDna.strategy_MA},
     strategy_BB : BOOLEAN,
     rsi_window : {DefaultDna.rsi_window, MutationRange.rsi_window[1]},
     rsi_buy : {DefaultDna.rsi_buy},
     rsi_sell : {DefaultDna.rsi_sell, MutationRange.rsi_sell[1]},
     ma_short : {DefaultDna.ma_short, MutationRange.ma_short[1]},
     ma_long : {DefaultDna.ma_long},
     bb_window : {DefaultDna.bb_window},
     bb_dev : {DefaultDna.bb_dev}]
    \cup {<< >>, [k \in Keys \ {"strategy_RSI"} |-> DefaultDna[k]]}

BacktestInit ==
    /\ dna_file = Absent
    /\ history_file = Absent
    /\ cache_file = CacheMiss
    /\ best_params = DefaultDna
    /\ best_score = RatInt(INITIAL_BEST_SCORE)
    /\ run = [w \in Workers |-> IdleRun]
    /\ loop_pc = "running"
    /\ status = [pc |-> "idle"]
    /\ draws_left = 0
    /\ call = NoCall

CallBacktest ==
    /\ call = NoCall
    /\ \E df \in BacktestFrames, params \in BacktestParams :
           call' = [fn |-> "backtest", df |-> df, params |-> params,
                    result |-> backtest(df, params)]
    /\ UNCHANGED <<dna_file, history_file, cache_file, best_params,
                   best_score, run, loop_pc, status, draws_left>>

BacktestSpec == BacktestInit /\ [][CallBacktest]_vars

\* Optimizer._backtest called on its own and followed bar by bar, on the
\* 56-bar series and on the rise-and-fall series.
TradeFrames == {Frame(s) : s \in PriceSeriesSet \cup {RiseFallSeries}}

\* Lines 124-143: the cash, the position and the indicator columns.
BacktestEnter ==
    /\ call = NoCall
    /\ \E df \in TradeFrames, params \in BacktestParams :
           call' = IF IndicatorsFail(df, params)
                       THEN [fn |-> "backtest_bars", pc |-> "returned",
                             df |-> df, params |-> params, i |-> 0,
                             capital |-> RatInt(INITIAL_CAPITAL),
                             position |-> RatInt(0),
                             result |-> Returned(RatInt(INVALID_PENALTY))]
                   ELSE [fn |-> "backtest_bars", pc |-> "loop",
                         df |-> df, params |-> params, i |-> WARMUP,
                         capital |-> RatInt(INITIAL_CAPITAL),
                         position |-> RatInt(0), result |-> NoResult]
    /\ UNCHANGED <<dna_file, history_file, cache_file, best_params,
                   best_score, run, loop_pc, status, draws_left>>

\* The call after bar c.i, whose score is `score`.
AfterBar(c, score) ==
    IF score.raised THEN [c EXCEPT !.pc = "raised", !.result = Raised]
    ELSE CHOOSE out \in
             {[c EXCEPT !.i = c.i + 1, !.capital = after.capital,
                        !.position = after.position] :
                  after \in {Execute(c.df.Close[c.i + 1], score.points,
                                     c.capital, c.position)}}
             : TRUE

\* Lines 149-177, one pass of the loop: bar i is scored and traded on.
BacktestBarStep ==
    /\ call.fn = "backtest_bars"
    /\ call.pc = "loop"
    /\ call.i < Len(call.df.Close)
    /\ call' = CHOOSE out \in
                   {AfterBar(call, score) :
                        score \in {BarScore(call.df.Close, call.params,
                                            call.i)}}
                   : TRUE
    /\ UNCHANGED <<dna_file, history_file, cache_file, best_params,
                   best_score, run, loop_pc, status, draws_left>>

\* Lines 179-181: the loop is over and the return is computed.
BacktestReturn ==
    /\ call.fn = "backtest_bars"
    /\ call.pc = "loop"
    /\ call.i >= Len(call.df.Close)
    /\ call' = [call EXCEPT !.pc = "returned",
                            !.result = Returned(Roi(call.df.Close,
                                                    call.capital,
                                                    call.position))]
    /\ UNCHANGED <<dna_file, history_file, cache_file, best_params,
                   best_score, run, loop_pc, status, draws_left>>

TradeNext == BacktestEnter \/ BacktestBarStep \/ BacktestReturn

TradeSpec == BacktestInit /\ [][TradeNext]_vars

\* Analyzer.analyze_stock called on its own, on the 56-bar series cut after
\* its last bars and on a series that does not move, whose RSI is undefined
\* (no gain and no loss in the window).
FlatSeries == [i \in 1 .. ANALYZE_MIN_BARS |-> 100]

AnalyzeFrames ==
    {Frame(SubSeq(s, 1, n)) :
         s \in PriceSeriesSet, n \in ANALYZE_MIN_BARS - 1 .. Len(TrendSeries)}
    \cup {Frame(FlatSeries), EmptyFrame}

CallAnalyze ==
    /\ call = NoCall
    /\ \E df \in AnalyzeFrames, params \in BacktestParams, surge \in BOOLEAN :
           call' = [fn |-> "analyze_stock", df |-> df, params |-> params,
                    surge |-> surge,
                    result |-> analyze_stock(df, params, surge)]
    /\ UNCHANGED <<dna_file, history_file, cache_file, best_params,
                   best_score, run, loop_pc, status, draws_left>>

AnalyzeSpec == BacktestInit /\ [][CallAnalyze]_vars

\* Optimizer._mutate and Optimizer._crossover called on their own.
\* random.randint(lo, hi) gives any integer of lo .. hi; the calls are made
\* with the two ends.
Randint(range) == {range[1], range[2]}

\* Every outcome of the six draws of _mutate: any subset of the five numeric
\* keys resampled, each to an end of its range, and strategy_BB toggled or
\* not.
MutateDraws ==
    {[resample |-> r, toggle_bb |-> t] :
         r \in UNION {{f \in [ks -> UNION {Randint(MutationRange[k]) :
                                               k \in ks}] :
                          \A k \in ks : f[k] \in Randint(MutationRange[k])} :
                         ks \in SUBSET DOMAIN MutationRange},
         t \in BOOLEAN}

\* A complete configuration that differs from the default on every key.
OtherDna ==
    [strategy_RSI |-> FALSE, strategy_MA |-> FALSE, strategy_BB |-> TRUE,
     rsi_window |-> 7, rsi_buy |-> 25, rsi_sell |-> 80,
     ma_short |-> 10, ma_long |-> 100, bb_window |-> 10, bb_dev |-> 1]

\* The dicts the two operators are called with: complete configurations, the
\* empty object and one without strategy_BB.
GeneticParams ==
    {DefaultDna, OtherDna, << >>,
     [k \in Keys \ {"strategy_BB"} |-> DefaultDna[k]]}

CallMutate ==
    /\ call = NoCall
    /\ \E params \in GeneticParams, draw \in MutateDraws :
           call' = [fn |-> "mutate", params |-> params, draw |-> draw,
                    result |-> mutate(params, draw)]
    /\ UNCHANGED <<dna_file, history_file, cache_file, best_params,
                   best_score, run, loop_pc, status, draws_left>>

\* One coin flip for every key of p1.
CallCrossover ==
    /\ call = NoCall
    /\ \E p1 \in GeneticParams, p2 \in GeneticParams :
       \E from_p1 \in SUBSET DOMAIN p1 :
           call' = [fn |-> "crossover", p1 |-> p1, p2 |-> p2,
                    from_p1 |-> from_p1,
                    result |-> crossover(p1, p2, from_p1)]
    /\ UNCHANGED <<dna_file, history_file, cache_file, best_params,
                   best_score, run, loop_pc, status, draws_left>>

GeneticNext == CallMutate \/ CallCrossover

GeneticSpec == BacktestInit /\ [][GeneticNext]_vars

(***************************************************************************)
(* Properties                                                              *)
(***************************************************************************)
\* A dict with the ten keys of a configuration.
Complete(params) == DOMAIN params = Keys

\* The generation's top entry of the loop worker's ranking.
Top == run["loop"].scores[1]

\* The invariant the data model states for StrategyParameters.
DataModelInvariant(params) ==
    /\ params.rsi_buy < params.rsi_sell
    /\ params.ma_short < params.ma_long
    /\ params.rsi_window >= 2 /\ params.ma_short >= 2
    /\ params.ma_long >= 2 /\ params.bb_window >= 2

\* The domains the specification declares for the keys _mutate resamples.
DeclaredDomain ==
    [rsi_window |-> 5 .. 30, rsi_buy |-> 10 .. 40, rsi_sell |-> 60 .. 90,
     ma_short |-> 5 .. 50, ma_long |-> 50 .. 200]

\* The call of analyze_stock got as far as the score.
Scoring == call.fn = "analyze_stock" /\ "score" \in DOMAIN call.result.value

\* The last bar (0-based) of the frame analyze_stock was called with.
LastBar == Len(call.df.Close) - 1

\* The record the loop worker's run appended last.
LastRecord == run["loop"].history[Len(run["loop"].history)]

\* The fitness of a stored configuration on series s.
FitnessOn(s, params) == backtest(Frame(s), params)

\* C1.  Within one process (the background loop running alone), no step of
\* run_simulation lowers best_score: it changes only at line 93, to the
\* generation's top fitness, which is strictly greater than the value it
\* replaces; and best_params changes only at line 94, right after, to the
\* individual that achieved that fitness.
C1_BestScoreNeverDecreases ==
    [][/\ RatGe(best_score', best_score)
       /\ best_score' # best_score =>
              /\ run["loop"].pc = "set_score"
              /\ best_score' = Top.score
              /\ RatGt(Top.score, best_score)
       /\ best_params' # best_params =>
              /\ run["loop"].pc = "set_params"
              /\ best_params' = Top.individual
              /\ best_score = Top.score]_vars

\* A generation has just ended whose top fitness was below best_score, and
\* the best was held.
C1_GenerationBelowBestHeld ==
    /\ run["loop"].pc \in {"breed", "evaluate", "save_history"}
    /\ Len(run["loop"].history) > 0
    /\ RatLt(run["loop"].history[Len(run["loop"].history)].best_score,
             best_score)

\* C2.  Over the runs of a process that started on the stored file, a
\* configuration in best_dna.json is never overwritten by one of lower
\* fitness on the same price series.
C2_StoredBestNeverRegresses ==
    [][(/\ dna_file.kind = "json"
        /\ dna_file'.kind = "json"
        /\ Complete(dna_file.value)
        /\ Complete(dna_file'.value))
       => \A s \in PriceSeriesSet :
              RatGe(FitnessOn(s, dna_file'.value).value,
                    FitnessOn(s, dna_file.value).value)]_vars

\* C3.  With two run_simulation calls running on the one Optimizer, no step
\* of either lowers best_score.
C3_ConcurrentBestScoreNeverDecreases ==
    [][~RatLt(best_score', best_score)]_vars

\* C4.  The pair a status request reports is consistent: its best_score is
\* the optimizer's initial score, when nothing has been installed yet, or the
\* fitness of its best_params.
C4_StatusPairConsistent ==
    status.pc = "respond" =>
        \/ status.best_score = RatInt(INITIAL_BEST_SCORE)
        \/ \E s \in PriceSeriesSet :
               FitnessOn(s, status.best_params)
                   = Returned(status.best_score)

\* C5.  At the end of every generation of the loop's run, best_dna.json holds
\* the parameters and the score that are in memory.
C5_DnaFileEqualsMemory ==
    (/\ run["loop"].pc \in {"breed", "evaluate", "save_history"}
     /\ Len(run["loop"].history) > 0)
    => dna_file = Json([best_params |-> best_params,
                        best_score |-> best_score])

\* C6.  No run_simulation call ends with an exception raised by the write of
\* best_dna.json or of optimization_history.json.
C6_WriteFailureDoesNotRaise ==
    \A w \in Workers :
        (run[w].pc = "done" /\ run[w].result.kind = "raised")
        => run[w].result.at \notin {"save_dna", "save_history"}

\* C7.  Whatever best_dna.json held at the start, the parameters _load_dna
\* returned (best_params until the first improvement) have the ten keys, and
\* no run ends with an exception raised while the population is seeded,
\* evaluated or bred.
C7_LoadToleratesAnyFile ==
    /\ best_score = RatInt(INITIAL_BEST_SCORE) => Complete(best_params)
    /\ \A w \in Workers :
           (run[w].pc = "done" /\ run[w].result.kind = "raised")
           => run[w].result.at \notin {"seed", "evaluate", "breed"}

\* C8.  The background loop never ends: a cycle that returned is followed by
\* the one-hour sleep and a cycle that raised by the one-minute sleep, the
\* loop is always running a cycle or asleep, and every finished cycle is
\* followed by the start of another one.
C8_LoopNeverTerminates ==
    /\ [][(loop_pc = "running" /\ loop_pc' # "running") =>
              /\ run["loop"].pc = "done"
              /\ loop_pc' = IF run["loop"].result.kind = "raised"
                                THEN "sleep_60" ELSE "sleep_3600"]_vars
    /\ [](loop_pc \in {"running", "sleep_3600", "sleep_60"})
    /\ (run["loop"].pc = "done") ~> (run["loop"].pc = "fetch")
    /\ (loop_pc = "sleep_3600") ~> (loop_pc = "running")
    /\ (loop_pc = "sleep_60") ~> (loop_pc = "running")

\* A cycle is running after one that failed: optimization_history.json was
\* left truncated by a write that raised.
C8_CycleAfterFailedCycle ==
    /\ history_file = Corrupt
    /\ loop_pc = "running"
    /\ run["loop"].pc = "seed"

\* C9.  No run_simulation call ends with an exception raised while the price
\* series is obtained.
C9_DataFailureDoesNotRaise ==
    \A w \in Workers :
        (run[w].pc = "done" /\ run[w].result.kind = "raised")
        => run[w].result.at # "fetch"

\* C10.  _backtest, called with a complete configuration and a frame that is
\* empty or has fewer bars than the warm-up, returns the penalty.
C10_ShortSeriesGivesPenalty ==
    (/\ call.fn = "backtest"
     /\ Complete(call.params)
     /\ (IsEmpty(call.df) \/ Len(call.df.Close) < WARMUP))
    => call.result = Returned(RatInt(INVALID_PENALTY))

\* C11.  When the loop's run_simulation call returns, optimization_history.json
\* holds the records of this call and no others: as many as the call had
\* generations, numbered 0, 1, ... in order.  And the record a generation
\* appends names an individual of the population the generation evaluated,
\* with that individual's fitness on the run's series, which no individual of
\* the population exceeds.
C11_HistoryHoldsTheRun ==
    /\ [][(/\ run["loop"].pc = "save_history"
           /\ run["loop"]'.pc = "done"
           /\ run["loop"]'.result.kind = "returned")
          => /\ history_file'.kind = "json"
             /\ history_file'.value.history = run["loop"].history
             /\ Len(history_file'.value.history) = run["loop"].generations
             /\ \A g \in 1 .. Len(history_file'.value.history) :
                    history_file'.value.history[g].generation = g - 1]_vars
    /\ [](run["loop"].pc = "breed" =>
             /\ Len(run["loop"].history) = run["loop"].gen + 1
             /\ \E i \in 1 .. Len(run["loop"].population) :
                    run["loop"].population[i] = LastRecord.best_params
             /\ backtest(run["loop"].df, LastRecord.best_params)
                    = Returned(LastRecord.best_score)
             /\ \A i \in 1 .. Len(run["loop"].population) :
                    RatGe(LastRecord.best_score,
                          backtest(run["loop"].df,
                                   run["loop"].population[i]).value))

\* A call of MaxGenerations generations has returned, its individuals drawn
\* with mutations, and its records are in the file.
C11_RunOfMaxGenerationsSaved ==
    /\ run["loop"].pc = "done"
    /\ run["loop"].result.kind = "returned"
    /\ history_file.kind = "json"
    /\ Len(history_file.value.history) = MaxGenerations
    /\ draws_left < MaxMutations
    /\ cache_file.state = "fresh"

\* C12.  Every individual of the population of every generation of the loop's
\* runs that has the ten keys satisfies rsi_buy < rsi_sell, ma_short < ma_long
\* and has its three windows at 2 or more.
C12_PopulationKeepsInvariant ==
    \A i \in 1 .. Len(run["loop"].population) :
        Complete(run["loop"].population[i]) =>
            DataModelInvariant(run["loop"].population[i])

\* C13.  _mutate returns for every complete configuration, and whenever it
\* returns, the result has the input's keys and the drawn ones; a key drawn
\* for resampling has a value of its declared domain, strategy_BB is negated
\* when its draw came true, and every other key has the input's value.
C13_MutateChangesOnlyDrawnKeys ==
    call.fn = "mutate" =>
        /\ Complete(call.params) => ~call.result.raised
        /\ ~call.result.raised =>
               /\ DOMAIN call.result.value
                      = (DOMAIN call.params) \cup (DOMAIN call.draw.resample)
               /\ \A k \in DOMAIN call.result.value :
                      IF k \in DOMAIN call.draw.resample
                          THEN call.result.value[k] \in DeclaredDomain[k]
                      ELSE IF k = "strategy_BB" /\ call.draw.toggle_bb
                          THEN call.result.value[k] = ~call.params[k]
                      ELSE call.result.value[k] = call.params[k]

\* _mutate was called on a configuration with strategy_BB on, and every draw
\* came true.
C13_EveryKeyDrawn ==
    /\ call.fn = "mutate"
    /\ call.params = OtherDna
    /\ DOMAIN call.draw.resample = DOMAIN MutationRange
    /\ call.draw.toggle_bb
    /\ ~call.result.raised
    /\ call.result.value # call.params

\* C14.  For two configurations p1 and p2 with the ten keys and every outcome
\* of the coin flips, _crossover(p1, p2) returns a child with exactly the keys
\* of p1, each with p1's or p2's value for the key.
C14_ChildTakesEachValueFromAParent ==
    (call.fn = "crossover" /\ Complete(call.p1) /\ Complete(call.p2)) =>
        /\ ~call.result.raised
        /\ DOMAIN call.result.value = DOMAIN call.p1
        /\ \A k \in DOMAIN call.p1 :
               call.result.value[k] \in {call.p1[k], call.p2[k]}

\* A child of two configurations that differ on every key, with values of
\* both.
C14_ChildOfBoth ==
    /\ call.fn = "crossover"
    /\ call.p1 = DefaultDna
    /\ call.p2 = OtherDna
    /\ ~call.result.raised
    /\ \E k \in Keys : call.result.value[k] = call.p1[k]
    /\ \E k \in Keys : call.result.value[k] = call.p2[k]

\* C15.  _backtest with the default parameters on the series that rises for
\* HalfBars bars and falls for HalfBars bars returns with the position it
\* opened closed again, at a profit, and its fitness is strictly positive.
C15_RiseAndFallGivesPositiveFitness ==
    (/\ call.fn = "backtest_bars"
     /\ call.pc = "returned"
     /\ call.df = Frame(RiseFallSeries)
     /\ call.params = DefaultDna)
    => /\ call.position.n = 0
       /\ RatGt(call.capital, RatInt(INITIAL_CAPITAL))
       /\ RatGt(call.result.value, RatInt(0))

\* C19.  In the loop of _backtest, after every bar cash and shares are both
\* at least 0 and at most one of them is not 0, and the bar has index WARMUP
\* or more.  A bar that changes cash or shares is a buy, on a score of 1.5 or
\* more with no shares held, that turns all the cash into shares at the bar's
\* close, or a sell, on a score of -1.5 or less with shares held, that turns
\* all the shares into cash at the bar's close.
C19_AllInOrAllOut ==
    /\ [](call.fn = "backtest_bars" =>
             /\ call.capital.n >= 0
             /\ call.position.n >= 0
             /\ call.capital.n = 0 \/ call.position.n = 0)
    /\ [][(/\ call.fn = "backtest_bars"
           /\ call.pc = "loop"
           /\ <<call.capital, call.position>>'
                  # <<call.capital, call.position>>)
          => /\ call.i >= WARMUP
             /\ \/ /\ BarScore(call.df.Close, call.params, call.i).points >= 3
                   /\ call.position.n = 0
                   /\ call.capital' = RatInt(0)
                   /\ call.position'
                          = Rat(call.capital.n,
                                call.capital.d * call.df.Close[call.i + 1])
                \/ /\ BarScore(call.df.Close, call.params, call.i).points <= -3
                   /\ call.position.n > 0
                   /\ call.position' = RatInt(0)
                   /\ call.capital'
                          = Rat(call.position.n * call.df.Close[call.i + 1],
                                call.position.d)]_vars

\* A backtest that bought and sold.
C19_BoughtAndSold ==
    /\ call.fn = "backtest_bars"
    /\ call.pc = "loop"
    /\ call.position.n = 0
    /\ call.capital # RatInt(INITIAL_CAPITAL)

\* C16.  For a complete configuration, the score analyze_stock computes on
\* the last two bars is the score the backtest loop computes for that bar
\* with the same parameters, plus 0.5 when the bar's short average is above
\* its long average, and nothing else.
C16_LiveScoreIsBacktestScorePlusTrend ==
    (Scoring /\ Complete(call.params)) =>
        call.result.value.score
            = BarScore(call.df.Close, call.params, LastBar).points
              + (IF FloatGt(calculate_sma(call.df.Close, call.params.ma_short,
                                          LastBar),
                            calculate_sma(call.df.Close, call.params.ma_long,
                                          LastBar))
                     THEN 1 ELSE 0)

\* C17.  When the RSI of the bar is undefined, the RSI rule adds nothing to
\* the score, in analyze_stock and in the backtest loop alike (the score is
\* what it is with strategy_RSI off), and analyze_stock reports the RSI as
\* undefined, not as 0.
C17_UndefinedRsiIsNeverZero ==
    (/\ Scoring
     /\ Complete(call.params)
     /\ IsNaN(calculate_rsi(call.df.Close, call.params.rsi_window, LastBar)))
    => /\ call.result.value.score
              = analyze_stock(call.df,
                              [call.params EXCEPT !.strategy_RSI = FALSE],
                              call.surge).value.score
       /\ BarScore(call.df.Close, call.params, LastBar)
              = BarScore(call.df.Close,
                         [call.params EXCEPT !.strategy_RSI = FALSE], LastBar)
       /\ call.result.value.rsi # RatInt(0)

\* C18.  From the first evaluation of a run to its end the population has
\* PopulationSize individuals, and the step that ends generation g makes the
\* two top-ranked individuals of g, unchanged, the first two individuals of
\* generation g + 1.
C18_EliteCarriedOver ==
    /\ [](run["loop"].pc \in {"evaluate", "set_score", "set_params",
                               "save_dna", "breed", "save_history"}
          => Len(run["loop"].population) = PopulationSize)
    /\ [][(run["loop"].pc = "breed"
           /\ run["loop"]'.gen = run["loop"].gen + 1)
          => /\ Len(run["loop"]'.population) = PopulationSize
             /\ run["loop"]'.population[1] = run["loop"].scores[1].individual
             /\ run["loop"]'.population[2]
                    = run["loop"].scores[2].individual]_vars

\* A generation after the first is about to be evaluated, and the two
\* individuals carried over are not the same.
C18_TwoDistinctElites ==
    /\ run["loop"].pc = "evaluate"
    /\ run["loop"].gen >= 1
    /\ run["loop"].population[1] # run["loop"].population[2]
    /\ run["loop"].population[1] = run["loop"].history[1].best_params

\* C20.  In the history of one run_simulation call, and in the history it
\* saves, the best score of a generation is at least the best score of the
\* generation before it.
C20_GenerationBestNeverDrops ==
    /\ \A g \in 1 .. Len(run["loop"].history) - 1 :
           RatGe(run["loop"].history[g + 1].best_score,
                 run["loop"].history[g].best_score)
    /\ history_file.kind = "json" =>
           \A g \in 1 .. Len(history_file.value.history) - 1 :
               RatGe(history_file.value.history[g + 1].best_score,
                     history_file.value.history[g].best_score)

\* A saved history whose second generation beat the first.
C20_SecondGenerationBetter ==
    /\ history_file.kind = "json"
    /\ Len(history_file.value.history) >= 2
    /\ RatGt(history_file.value.history[2].best_score,
             history_file.value.history[1].best_score)

\* C21.  The step of the loop's run_simulation call that obtains the price
\* series either raises, or goes on to seed the population with a series
\* that is not empty, or ends the call at once: then the call returns None,
\* no individual was seeded or evaluated, and best_params, best_score,
\* best_dna.json and optimization_history.json are what they were.  No later
\* step of a call works on an empty series.
C21_EmptySeriesChangesNothing ==
    /\ [][(run["loop"].pc = "fetch" /\ run["loop"]' # run["loop"])
          => \/ /\ run["loop"]'.pc = "seed"
                /\ ~IsEmpty(run["loop"]'.df)
             \/ /\ run["loop"]'.pc = "done"
                /\ run["loop"]'.result.kind = "raised"
             \/ /\ run["loop"]'.pc = "done"
                /\ run["loop"]'.result = [kind |-> "returned_none"]
                /\ run["loop"].population = << >>
                /\ run["loop"].history = << >>
                /\ best_params' = best_params
                /\ best_score' = best_score
                /\ dna_file' = dna_file
                /\ history_file' = history_file]_vars
    /\ [](run["loop"].pc \in {"seed", "evaluate", "set_score", "set_params",
                               "save_dna", "breed", "save_history"}
          => ~IsEmpty(run["loop"].df))
    /\ [][(run["loop"]'.pc = "done"
           /\ run["loop"]'.result.kind = "returned_none")
          => run["loop"].pc \in {"fetch", "done"}]_vars

\* A cycle found no data and returned None, after an earlier cycle had found
\* a best and saved its history.
C21_EmptySeriesAfterABest ==
    /\ run["loop"].pc = "done"
    /\ run["loop"].result.kind = "returned_none"
    /\ best_score # RatInt(INITIAL_BEST_SCORE)
    /\ dna_file.kind = "json"
    /\ history_file.kind = "json"

====
